---- MODULE Spec2Model ----
(***************************************************************************)
(* Hostel room allotment (src/app.py): the Room and Student records, the   *)
(* process-wide HostelSystem instance with its data file, and the request  *)
(* handlers that add rooms, add students and run one allocation pass.      *)
(***************************************************************************)
EXTENDS Integers, Sequences, FiniteSets, TLC

VARIABLES
    rooms,      \* hostel_sys.rooms: the Room objects, in insertion order
    students,   \* hostel_sys.students: the Student objects, in insertion order
    disk,       \* DATA_FILE as save_data last wrote it
    lastCall,   \* the handler that ran last
    response,   \* what that handler returned
    visits,     \* the iterations of the student loop of that handler's pass
    threads     \* the requests being served at once: each one's place and locals

vars == <<rooms, students, disk, lastCall, response, visits, threads>>

(* ------------------------------ bounds -------------------------------- *)

\* Most rooms / students the add handlers are driven to in a run.
MaxRooms == 2
MaxStudents == 2

(* --------------------------- Python values ---------------------------- *)

\* Python's None (Student.room default, the "room" of a failed log entry).
\* No room number of RoomNumbers is this string.
None == "None"

\* A JSON value handed to int(): a number or a string.
IntV(n) == [kind |-> "int", val |-> n]
StrV(s) == [kind |-> "str", text |-> s]

\* int() raising ValueError.
ValueError == [ok |-> FALSE]

\* The decimal strings among the inputs below and the integer each denotes
\* (int() strips surrounding blanks and accepts a sign).
DecimalText == {<<"2", 2>>, <<" 1 ", 1>>, <<"-1", 0 - 1>>}

\* Mutant of PyInt: text that is no number is taken as 0.
PyIntLenient(x) ==
    IF x.kind = "int" THEN [ok |-> TRUE, val |-> x.val]
    ELSE IF \E p \in DecimalText : p[1] = x.text
         THEN [ok |-> TRUE, val |-> (CHOOSE p \in DecimalText : p[1] = x.text)[2]]
         ELSE [ok |-> TRUE, val |-> 0]

\* int(x): a number is kept, a string is parsed, anything else raises.
PyInt(x) ==
    IF x.kind = "int" THEN [ok |-> TRUE, val |-> x.val]
    ELSE IF \E p \in DecimalText : p[1] = x.text
         THEN [ok |-> TRUE, val |-> (CHOOSE p \in DecimalText : p[1] = x.text)[2]]
         ELSE ValueError

\* Mutant of Lower: the gender is compared as typed.
LowerForgotten(s) == s

\* str.lower() on the gender strings of Genders.
Lower(s) ==
    CASE s = "Male" -> "male"
      [] s = "FEMALE" -> "female"
      [] s = "Other" -> "other"
      [] OTHER -> s

(* ------------------------------ inputs -------------------------------- *)

RoomNumbers == {"101", ""}
CapacityInputs == {IntV(0 - 1), IntV(0), IntV(1), StrV("2"), StrV("two")}
FloorInputs == {StrV(" 1 "), StrV("G")}
RoomTypes == {"Standard"}

StudentIds == {"S1", "S2"}
StudentNames == {"Asha"}
Genders == {"male", "FEMALE", "Other"}
YearInputs == {IntV(1), StrV("2"), StrV("II")}

(* ------------------------------- Room --------------------------------- *)

\* Room(number, capacity, floor, type): occupied = 0, students = [].
Room(number, capacity, floor, rtype) ==
    [number |-> number, capacity |-> capacity, floor |-> floor, type |-> rtype,
     occupied |-> 0, students |-> <<>>]

\* Mutant of IsAvailable: off by one.
IsAvailableInclusive(r) == r.occupied <= r.capacity

IsAvailable(r) == r.occupied < r.capacity

\* Mutant of RoomAddStudent: the count is not kept.
RoomAddStudentNoCount(r, sid) ==
    IF r.occupied < r.capacity
    THEN [ok |-> TRUE, room |-> [r EXCEPT !.students = Append(@, sid)]]
    ELSE [ok |-> FALSE, room |-> r]

\* Mutant of RoomAddStudent: an id the room already lists is refused.
RoomAddStudentOnce(r, sid) ==
    IF r.occupied < r.capacity /\ \A j \in 1 .. Len(r.students) : r.students[j] # sid
    THEN [ok |-> TRUE,
          room |-> [r EXCEPT !.students = Append(@, sid), !.occupied = @ + 1]]
    ELSE [ok |-> FALSE, room |-> r]

\* Room.add_student: the returned flag and the room afterwards.
RoomAddStudent(r, sid) ==
    IF IsAvailable(r)
    THEN [ok |-> TRUE,
          room |-> [r EXCEPT !.students = Append(@, sid), !.occupied = @ + 1]]
    ELSE [ok |-> FALSE, room |-> r]

(* ------------------------------ Student ------------------------------- *)

Student(sid, name, gender, year) ==
    [sid |-> sid, name |-> name, gender |-> gender, year |-> year, room |-> None]

(* ---------------------------- persistence ----------------------------- *)

\* DATA_FILE does not exist.
NoFile == [exists |-> FALSE]

\* Room.to_dict and Room.from_dict, key by key.
RoomToDict(r) ==
    [number |-> r.number, capacity |-> r.capacity, floor |-> r.floor,
     type |-> r.type, occupied |-> r.occupied, students |-> r.students]

RoomOfDict(d) ==
    [number |-> d.number, capacity |-> d.capacity, floor |-> d.floor,
     type |-> d.type, occupied |-> d.occupied, students |-> d.students]

\* Mutant of StudentToDict: the room key is written as None.
StudentToDictNoRoom(s) ==
    [sid |-> s.sid, name |-> s.name, gender |-> s.gender, year |-> s.year,
     room |-> None]

\* Student.to_dict and Student.from_dict, key by key.
StudentToDict(s) ==
    [sid |-> s.sid, name |-> s.name, gender |-> s.gender, year |-> s.year,
     room |-> s.room]

StudentOfDict(d) ==
    [sid |-> d.sid, name |-> d.name, gender |-> d.gender, year |-> d.year,
     room |-> d.room]

RECURSIVE RoomDicts(_)
RoomDicts(rs) ==
    IF rs = <<>> THEN <<>> ELSE <<RoomToDict(Head(rs))>> \o RoomDicts(Tail(rs))

RECURSIVE StudentDicts(_)
StudentDicts(ss) ==
    IF ss = <<>> THEN <<>> ELSE <<StudentToDict(Head(ss))>> \o StudentDicts(Tail(ss))

RECURSIVE RoomsOfDicts(_)
RoomsOfDicts(ds) ==
    IF ds = <<>> THEN <<>> ELSE <<RoomOfDict(Head(ds))>> \o RoomsOfDicts(Tail(ds))

RECURSIVE StudentsOfDicts(_)
StudentsOfDicts(ds) ==
    IF ds = <<>> THEN <<>>
    ELSE <<StudentOfDict(Head(ds))>> \o StudentsOfDicts(Tail(ds))

\* save_data: every room and student, attribute for attribute, in list order.
SaveData(rs, ss) ==
    [exists |-> TRUE, rooms |-> RoomDicts(rs), students |-> StudentDicts(ss)]

\* load_data: the lists of the file, or the empty lists __init__ set when there
\* is no file.
LoadData(file) ==
    IF file.exists
    THEN [rooms |-> RoomsOfDicts(file.rooms), students |-> StudentsOfDicts(file.students)]
    ELSE [rooms |-> <<>>, students |-> <<>>]

(* --------------------------- allocation pass -------------------------- *)

\* Mutant of InsertByYear: equal years are not kept in order.
InsertByYearUnstable(ss, placed, i) ==
    SelectSeq(placed, LAMBDA j : ss[j].year > ss[i].year)
        \o <<i>>
        \o SelectSeq(placed, LAMBDA j : ss[j].year <= ss[i].year)

\* Python's sorted() is stable: an element goes behind every element already
\* placed whose key does not sort after its own. With key = year and
\* reverse = True, student i goes behind those of year >= its own.
InsertByYear(ss, placed, i) ==
    SelectSeq(placed, LAMBDA j : ss[j].year >= ss[i].year)
        \o <<i>>
        \o SelectSeq(placed, LAMBDA j : ss[j].year < ss[i].year)

RECURSIVE SortedPrefix(_, _)
SortedPrefix(ss, n) ==
    IF n = 0 THEN <<>> ELSE InsertByYear(ss, SortedPrefix(ss, n - 1), n)

\* sorted(self.students, key=lambda s: s.year, reverse=True), as positions in
\* self.students (the list holds the Student objects themselves).
SortedStudents(ss) == SortedPrefix(ss, Len(ss))

\* Mutant of GenderGroups: the groups in the other order.
GenderGroupsFemaleFirst == <<"female", "male">>

\* Mutant of GenderGroups: the female group is left out.
GenderGroupsMaleOnly == <<"male">>

\* for gender_group in ["male", "female"]
GenderGroups == <<"male", "female">>

\* [st for st in sorted_students if st.gender.lower() == gender_group]
GenderGroup(ss, order, g) == SelectSeq(order, LAMBDA i : Lower(ss[i].gender) = g)

\* Mutant of ScanRooms: the last room with a free bed is taken.
ScanRoomsLastFit(rs, k, sid) ==
    LET free == {j \in k .. Len(rs) : rs[j].occupied < rs[j].capacity}
    IN  IF free = {} THEN 0 ELSE CHOOSE j \in free : \A l \in free : l <= j

\* Mutant of ScanRooms: the scan is left behind the first room examined.
ScanRoomsFirstOnly(rs, k, sid) ==
    IF k > Len(rs) THEN 0
    ELSE IF rs[k].occupied < rs[k].capacity THEN k
    ELSE 0

\* for r in self.rooms: if r.is_available() and r.add_student(s.sid): ... break
\* The position of the room the scan from k stops at, 0 when it runs out.
RECURSIVE ScanRooms(_, _, _)
ScanRooms(rs, k, sid) ==
    IF k > Len(rs) THEN 0
    ELSE IF IsAvailable(rs[k]) /\ RoomAddStudent(rs[k], sid).ok THEN k
    ELSE ScanRooms(rs, k + 1, sid)

LogSuccess(s, r) == [student |-> s.name, room |-> r.number, status |-> "success"]
LogFailed(s) == [student |-> s.name, room |-> None, status |-> "failed"]

\* One iteration of the inner student loop on the pass state st. visits records,
\* per iteration, the student's position and room field as the iteration found
\* them, the rooms as the scan found them and the position of the room taken
\* (0: none).
Visit(st, i, k) ==
    [student |-> i, was |-> st.students[i].room, before |-> st.rooms, room |-> k]

VisitStudent(st, i) ==
    LET s == st.students[i]
        k == ScanRooms(st.rooms, 1, s.sid)
    IN  IF k # 0
        THEN [rooms    |-> [st.rooms EXCEPT ![k] = RoomAddStudent(@, s.sid).room],
              students |-> [st.students EXCEPT ![i].room = st.rooms[k].number],
              log      |-> Append(st.log, LogSuccess(s, st.rooms[k])),
              visits   |-> Append(st.visits, Visit(st, i, k))]
        ELSE [st EXCEPT !.log = Append(@, LogFailed(s)),
                        !.visits = Append(@, Visit(st, i, 0))]

\* Mutant of VisitAll: the loop is left at the first student turned away.
RECURSIVE VisitAllAbortOnFailure(_, _)
VisitAllAbortOnFailure(st, order) ==
    IF order = <<>> THEN st
    ELSE LET nx == VisitStudent(st, Head(order))
         IN  IF nx.visits[Len(nx.visits)].room = 0 THEN nx
             ELSE VisitAllAbortOnFailure(nx, Tail(order))

RECURSIVE VisitAll(_, _)
VisitAll(st, order) ==
    IF order = <<>> THEN st
    ELSE VisitAll(VisitStudent(st, Head(order)), Tail(order))

\* The outer loop over the gender groups from group g on; sorted_students was
\* computed once, before the loop.
RECURSIVE GenderPasses(_, _, _)
GenderPasses(st, order, g) ==
    IF g > Len(GenderGroups) THEN st
    ELSE GenderPasses(VisitAll(st, GenderGroup(st.students, order, GenderGroups[g])),
                      order, g + 1)

\* Mutant of AllocationPass: the log is not started afresh, it goes on from the
\* log of the call before.
AllocationPassKeepsLog(rs, ss) ==
    GenderPasses([rooms |-> rs, students |-> ss,
                  log |-> IF "log" \in DOMAIN response THEN response.log ELSE <<>>,
                  visits |-> <<>>],
                 SortedStudents(ss), 1)

\* Lines 129-142 of allocate_rooms on rooms rs and students ss.
AllocationPass(rs, ss) ==
    GenderPasses([rooms |-> rs, students |-> ss, log |-> <<>>, visits |-> <<>>],
                 SortedStudents(ss), 1)

(* ------------------------------ handlers ------------------------------ *)

\* hostel_sys = HostelSystem() with no data file: empty lists, nothing saved.
Init ==
    /\ disk = NoFile
    /\ rooms = LoadData(disk).rooms
    /\ students = LoadData(disk).students
    /\ lastCall = "init"
    /\ response = [success |-> TRUE]
    /\ visits = <<>>
    /\ threads = <<>>

\* POST /api/rooms -> hostel_sys.add_room(number, capacity, floor, type).
AddRoom(number, capacity, floor, rtype) ==
    /\ UNCHANGED threads
    /\ lastCall' = "add_room"
    /\ visits' = <<>>
    /\ IF PyInt(capacity).ok /\ PyInt(floor).ok
       THEN /\ Len(rooms) < MaxRooms
            /\ rooms' = Append(rooms, Room(number, PyInt(capacity).val,
                                           PyInt(floor).val, rtype))
            /\ disk' = SaveData(rooms', students)
            /\ response' = [success |-> TRUE, message |-> "Room added successfully"]
            /\ UNCHANGED students
       ELSE /\ response' = [success |-> FALSE, message |-> "invalid literal for int()"]
            /\ UNCHANGED <<rooms, students, disk>>

\* POST /api/students -> hostel_sys.add_student(sid, name, gender, year).
AddStudent(sid, name, gender, year) ==
    /\ UNCHANGED threads
    /\ lastCall' = "add_student"
    /\ visits' = <<>>
    /\ IF PyInt(year).ok
       THEN /\ Len(students) < MaxStudents
            /\ students' = Append(students, Student(sid, name, gender, PyInt(year).val))
            /\ disk' = SaveData(rooms, students')
            /\ response' = [success |-> TRUE, message |-> "Student added successfully"]
            /\ UNCHANGED rooms
       ELSE /\ response' = [success |-> FALSE, message |-> "invalid literal for int()"]
            /\ UNCHANGED <<rooms, students, disk>>

\* sum(r.capacity for r in self.rooms), sum(r.occupied for r in self.rooms)
RECURSIVE SumCapacity(_)
SumCapacity(rs) == IF rs = <<>> THEN 0 ELSE Head(rs).capacity + SumCapacity(Tail(rs))

RECURSIVE SumOccupied(_)
SumOccupied(rs) == IF rs = <<>> THEN 0 ELSE Head(rs).occupied + SumOccupied(Tail(rs))

\* The truth value Python gives a room field: None and "" are false.
Truthy(x) == x # None /\ x # ""

\* HostelSystem.get_stats.
GetStats(rs, ss) ==
    LET allocated == Len(SelectSeq(ss, LAMBDA s : Truthy(s.room)))
    IN  [total_rooms |-> Len(rs),
         total_capacity |-> SumCapacity(rs),
         occupied_beds |-> SumOccupied(rs),
         total_students |-> Len(ss),
         allocated_students |-> allocated,
         unallocated_students |-> Len(ss) - allocated]

\* GET /api/stats -> hostel_sys.get_stats().
Stats ==
    /\ lastCall' = "get_stats"
    /\ response' = GetStats(rooms, students)
    /\ visits' = <<>>
    /\ UNCHANGED <<rooms, students, disk, threads>>

\* Mutant of ShortCircuit: the students are tested before the rooms.
ShortCircuitStudentsFirst(rs, ss) ==
    IF ss = <<>> THEN "No students available!"
    ELSE IF rs = <<>> THEN "No rooms available!"
    ELSE None

\* Mutant of ShortCircuit: the students are not tested.
ShortCircuitRoomsOnly(rs, ss) ==
    IF rs = <<>> THEN "No rooms available!" ELSE None

\* The two early returns of allocate_rooms: the message returned, None when the
\* pass goes ahead.
ShortCircuit(rs, ss) ==
    IF rs = <<>> THEN "No rooms available!"
    ELSE IF ss = <<>> THEN "No students available!"
    ELSE None

\* POST /api/allocate -> hostel_sys.allocate_rooms().
AllocateRooms ==
    /\ UNCHANGED threads
    /\ lastCall' = "allocate_rooms"
    /\ IF ShortCircuit(rooms, students) # None
       THEN /\ response' = [success |-> FALSE,
                            message |-> ShortCircuit(rooms, students)]
            /\ visits' = <<>>
            /\ UNCHANGED <<rooms, students, disk>>
       ELSE LET end == AllocationPass(rooms, students)
            IN  /\ rooms' = end.rooms
                /\ students' = end.students
                /\ disk' = SaveData(end.rooms, end.students)
                /\ response' = [success |-> TRUE, log |-> end.log]
                /\ visits' = end.visits

Next ==
    \/ \E n \in RoomNumbers, c \in CapacityInputs, f \in FloorInputs, t \in RoomTypes :
          AddRoom(n, c, f, t)
    \/ \E i \in StudentIds, n \in StudentNames, g \in Genders, y \in YearInputs :
          AddStudent(i, n, g, y)
    \/ AllocateRooms
    \/ Stats

Spec == Init /\ [][Next]_vars

(* ---------------- one instance started from a data file --------------- *)

\* Most rooms / students in the data file the instance is constructed from.
PassRooms == 2
PassStudents == 3

PassNumbers == <<"101", "102", "103">>
PassCapacities == 1 .. 2
PassResidents == 0 .. 1
PassSids == <<"S1", "S2", "S3", "S4">>
PassNames == <<"Asha", "Ravi", "Meena", "John">>
PassYears == {1, 2}

\* The id of the residents the file's rooms already hold.
Resident == "S0"

\* Room.from_dict of a stored room holding occ residents.
RECURSIVE Residents(_)
Residents(occ) == IF occ = 0 THEN <<>> ELSE Append(Residents(occ - 1), Resident)

RoomFromDict(number, capacity, occ) ==
    [Room(number, capacity, 1, "Standard") EXCEPT !.occupied = occ,
                                                  !.students = Residents(occ)]

RECURSIVE FileRooms(_, _, _)
FileRooms(cs, os, n) ==
    IF n = 0 THEN <<>>
    ELSE Append(FileRooms(cs, os, n - 1), RoomFromDict(PassNumbers[n], cs[n], os[n]))

\* Student.from_dict of stored students without a room, ids and names distinct.
RECURSIVE FileStudents(_, _, _)
FileStudents(gs, ys, m) ==
    IF m = 0 THEN <<>>
    ELSE Append(FileStudents(gs, ys, m - 1),
                Student(PassSids[m], PassNames[m], gs[m], ys[m]))

\* hostel_sys = HostelSystem() with a data file whose rooms satisfy
\* occupied = len(students) <= capacity.
InitPass ==
    /\ \E n \in 0 .. PassRooms, m \in 0 .. PassStudents :
         \E cs \in [1 .. n -> PassCapacities], os \in [1 .. n -> PassResidents],
            gs \in [1 .. m -> Genders], ys \in [1 .. m -> PassYears] :
            /\ \A k \in 1 .. n : os[k] <= cs[k]
            /\ disk = SaveData(FileRooms(cs, os, n), FileStudents(gs, ys, m))
    /\ rooms = LoadData(disk).rooms
    /\ students = LoadData(disk).students
    /\ lastCall = "init"
    /\ response = [success |-> TRUE]
    /\ visits = <<>>
    /\ threads = <<>>

NextPass == AllocateRooms

\* Allocation passes, one after another, on an instance loaded from a file.
SpecPass == InitPass /\ [][NextPass]_vars

(* --------------------------- one Room object -------------------------- *)

\* Largest occupied count and longest students list of the room drawn.
MaxOccupied == 3
MaxListed == 2

RoomCapacities == (0 - 1) .. 2

RECURSIVE SeqsUpTo(_, _)
SeqsUpTo(S, n) ==
    IF n = 0 THEN {<<>>}
    ELSE SeqsUpTo(S, n - 1)
           \cup {Append(q, x) : q \in {p \in SeqsUpTo(S, n - 1) : Len(p) = n - 1}, x \in S}

\* A Room object in any state of its fields.
InitRoom ==
    /\ \E c \in RoomCapacities, o \in 0 .. MaxOccupied, l \in SeqsUpTo(StudentIds, MaxListed) :
         rooms = <<[Room("101", c, 1, "Standard") EXCEPT !.occupied = o, !.students = l]>>
    /\ students = <<>>
    /\ disk = NoFile
    /\ lastCall = "init"
    /\ response = [success |-> TRUE]
    /\ visits = <<>>
    /\ threads = <<>>

\* r.is_available() followed by r.add_student(sid) on the room.
CallRoom(sid) ==
    /\ UNCHANGED threads
    /\ lastCall' = "room_add_student"
    /\ response' = [available |-> IsAvailable(rooms[1]),
                    added |-> RoomAddStudent(rooms[1], sid).ok]
    /\ rooms' = <<RoomAddStudent(rooms[1], sid).room>>
    /\ UNCHANGED <<students, disk, visits>>

NextRoom == \E sid \in StudentIds : CallRoom(sid)

SpecRoom == InitRoom /\ [][NextRoom]_vars

(* ------------------ allocate requests served at once ----------------- *)

\* Requests served at once, and most rooms / students in the data file.
NumWorkers == 2
ConcRooms == 1
ConcStudents == 2

Workers == 1 .. NumWorkers

\* A request not yet begun. Its locals: sorted_students, the position of the
\* gender group, the students of the group still to visit, the student and the
\* room at hand, and the log.
Idle == [pc |-> "idle", sorted |-> <<>>, g |-> 0, order |-> <<>>, s |-> 0, k |-> 0,
         log |-> <<>>]

\* hostel_sys = HostelSystem() with a data file whose rooms satisfy
\* occupied = len(students) <= capacity; no request begun.
InitConc ==
    /\ \E n \in 0 .. ConcRooms, m \in 0 .. ConcStudents :
         \E cs \in [1 .. n -> PassCapacities], os \in [1 .. n -> PassResidents],
            gs \in [1 .. m -> Genders], ys \in [1 .. m -> PassYears] :
            /\ \A k \in 1 .. n : os[k] <= cs[k]
            /\ disk = SaveData(FileRooms(cs, os, n), FileStudents(gs, ys, m))
    /\ rooms = LoadData(disk).rooms
    /\ students = LoadData(disk).students
    /\ lastCall = "init"
    /\ response = [success |-> TRUE]
    /\ visits = <<>>
    /\ threads = [t \in Workers |-> Idle]

\* Lines 124-130: the two early returns, else log = [] and sorted_students.
Begin(t) ==
    /\ threads[t].pc = "idle"
    /\ IF ShortCircuit(rooms, students) # None
       THEN /\ threads' = [threads EXCEPT ![t].pc = "done"]
            /\ lastCall' = "allocate_rooms"
            /\ response' = [success |-> FALSE,
                            message |-> ShortCircuit(rooms, students)]
       ELSE /\ threads' = [threads EXCEPT ![t].pc = "group",
                                          ![t].sorted = SortedStudents(students),
                                          ![t].g = 1]
            /\ UNCHANGED <<lastCall, response>>
    /\ UNCHANGED <<rooms, students, disk, visits>>

\* Line 132 and the list of line 133: the next gender group, or on to line 144.
EnterGroup(t) ==
    /\ threads[t].pc = "group"
    /\ IF threads[t].g > Len(GenderGroups)
       THEN threads' = [threads EXCEPT ![t].pc = "save"]
       ELSE threads' = [threads EXCEPT
                ![t].pc = "student",
                ![t].order = GenderGroup(students, threads[t].sorted,
                                         GenderGroups[threads[t].g])]
    /\ UNCHANGED <<rooms, students, disk, lastCall, response, visits>>

\* Lines 133-135: the next student of the group, the room scan at its start.
NextStudent(t) ==
    /\ threads[t].pc = "student"
    /\ IF threads[t].order = <<>>
       THEN threads' = [threads EXCEPT ![t].pc = "group", ![t].g = @ + 1]
       ELSE threads' = [threads EXCEPT ![t].pc = "scan",
                                       ![t].s = Head(threads[t].order),
                                       ![t].order = Tail(threads[t].order),
                                       ![t].k = 1]
    /\ UNCHANGED <<rooms, students, disk, lastCall, response, visits>>

\* Lines 135-136 and 141-142: r.is_available() on the room at hand; past the
\* last room the student is logged as failed.
Scan(t) ==
    /\ threads[t].pc = "scan"
    /\ IF threads[t].k > Len(rooms)
       THEN threads' = [threads EXCEPT
                ![t].pc = "student",
                ![t].log = Append(@, LogFailed(students[threads[t].s]))]
       ELSE IF IsAvailable(rooms[threads[t].k])
       THEN threads' = [threads EXCEPT ![t].pc = "gate"]
       ELSE threads' = [threads EXCEPT ![t].k = @ + 1]
    /\ UNCHANGED <<rooms, students, disk, lastCall, response, visits>>

\* Line 28, inside r.add_student(s.sid): self.is_available() once more.
Gate(t) ==
    /\ threads[t].pc = "gate"
    /\ IF IsAvailable(rooms[threads[t].k])
       THEN threads' = [threads EXCEPT ![t].pc = "add"]
       ELSE threads' = [threads EXCEPT ![t].pc = "scan", ![t].k = @ + 1]
    /\ UNCHANGED <<rooms, students, disk, lastCall, response, visits>>

\* Lines 29-31: the append and the increment, taken as one step.
Add(t) ==
    /\ threads[t].pc = "add"
    /\ rooms' = [rooms EXCEPT ![threads[t].k].students =
                                 Append(@, students[threads[t].s].sid),
                              ![threads[t].k].occupied = @ + 1]
    /\ threads' = [threads EXCEPT ![t].pc = "assign"]
    /\ UNCHANGED <<students, disk, lastCall, response, visits>>

\* Lines 137-140: s.room, the success entry, break.
Assign(t) ==
    /\ threads[t].pc = "assign"
    /\ students' = [students EXCEPT ![threads[t].s].room = rooms[threads[t].k].number]
    /\ threads' = [threads EXCEPT
            ![t].pc = "student",
            ![t].log = Append(@, LogSuccess(students[threads[t].s],
                                            rooms[threads[t].k]))]
    /\ UNCHANGED <<rooms, disk, lastCall, response, visits>>

\* Lines 144-145: save_data and the result.
Save(t) ==
    /\ threads[t].pc = "save"
    /\ disk' = SaveData(rooms, students)
    /\ lastCall' = "allocate_rooms"
    /\ response' = [success |-> TRUE, log |-> threads[t].log]
    /\ threads' = [threads EXCEPT ![t].pc = "done"]
    /\ UNCHANGED <<rooms, students, visits>>

\* No lock is taken anywhere: a request may take its next step whenever the
\* interpreter runs its thread.
NextConc ==
    \E t \in Workers :
        \/ Begin(t)
        \/ EnterGroup(t)
        \/ NextStudent(t)
        \/ Scan(t)
        \/ Gate(t)
        \/ Add(t)
        \/ Assign(t)
        \/ Save(t)

SpecConc == InitConc /\ [][NextConc]_vars

(* ------------------------------- claims ------------------------------- *)

\* occupied = len(students) and occupied <= capacity, for every room of rs.
OccupancyOk(rs) ==
    \A k \in 1 .. Len(rs) :
        /\ rs[k].occupied = Len(rs[k].students)
        /\ rs[k].occupied <= rs[k].capacity

\* How often x occurs in the sequence q.
Count(q, x) == Cardinality({j \in 1 .. Len(q) : q[j] = x})

\* The gender group a gender string belongs to once lowercased.
GroupOf(gender) ==
    IF gender \in {"male", "Male", "MALE"} THEN "male"
    ELSE IF gender \in {"female", "Female", "FEMALE"} THEN "female"
    ELSE "none"

\* The rooms as visit v of the last pass left them.
After(v) == IF v < Len(visits) THEN visits[v + 1].before ELSE rooms

PassRan == lastCall = "allocate_rooms" /\ response.success

\* C1: in every state reached from the empty collections by add_room,
\* add_student and allocate_rooms calls, every room has
\* occupied = len(students) and occupied <= capacity.
C1_OccupancyInvariant == OccupancyOk(rooms)

\* C2: an allocate_rooms call on rooms that all have
\* occupied = len(students) <= capacity leaves rooms that all do.
C2_AllocatePreservesOccupancy ==
    [][(lastCall' = "allocate_rooms" /\ OccupancyOk(rooms)) => OccupancyOk(rooms')]_vars

\* C2 witness: a pass that filled the last free bed and turned a student away.
C2_Witness ==
    /\ PassRan
    /\ \E v \in 1 .. Len(visits) : visits[v].room # 0
    /\ \E v \in 1 .. Len(visits) : visits[v].room = 0
    /\ OccupancyOk(rooms)

\* C3: every student whose room is not None has a room of that number whose
\* students list holds the student's id exactly once.
C3_StudentRoomConsistency ==
    \A i \in 1 .. Len(students) :
        students[i].room # None =>
            \E k \in 1 .. Len(rooms) :
                /\ rooms[k].number = students[i].room
                /\ Count(rooms[k].students, students[i].sid) = 1

\* C4: each visited student goes into the first room, in stored order, that
\* has occupied < capacity when the student is visited; the student is logged
\* as failed, with the room field as it was, exactly when no room has.
C4_FirstFit ==
    PassRan =>
        \A v \in 1 .. Len(visits) :
            LET b == visits[v].before
                i == visits[v].student
                free == {k \in 1 .. Len(b) : b[k].occupied < b[k].capacity}
                k == visits[v].room
            IN  /\ (response.log[v].status = "failed") <=> (free = {})
                /\ free = {} =>
                       /\ k = 0
                       /\ After(v) = b
                       /\ students[i].room = visits[v].was
                /\ free # {} =>
                       /\ k \in free
                       /\ \A j \in free : k <= j
                       /\ After(v) = [b EXCEPT ![k].students = Append(@, students[i].sid),
                                               ![k].occupied = @ + 1]
                       /\ students[i].room = b[k].number
                       /\ response.log[v].room = b[k].number

\* C4 witness: a student was put in the second room because the first was
\* full, and another was turned away.
C4_Witness ==
    /\ PassRan
    /\ \E v \in 1 .. Len(visits) :
          /\ visits[v].room = 2
          /\ visits[v].before[1].capacity > 0
    /\ \E v \in 1 .. Len(visits) : visits[v].room = 0

\* C5: within a gender group the students are visited by year, highest first,
\* and students of equal year in the order of the student collection; so a
\* student of the group is never placed while a more senior one of the same
\* pass is turned away.
C5_VisitOrder ==
    PassRan =>
        \A u \in 1 .. Len(visits), v \in 1 .. Len(visits) :
            LET a == students[visits[u].student]
                b == students[visits[v].student]
            IN  (u < v /\ GroupOf(a.gender) = GroupOf(b.gender)) =>
                    /\ a.year >= b.year
                    /\ a.year = b.year => visits[u].student < visits[v].student
                    /\ ~(visits[u].room = 0 /\ visits[v].room # 0)

\* C5 witness: one free bed and three male students, the junior one first in
\* the collection and two seniors of one year behind: the seniors are visited
\* in collection order, then the junior, and the first senior gets the bed.
C5_Witness ==
    /\ PassRan
    /\ Len(students) = 3
    /\ \A i \in 1 .. 3 : GroupOf(students[i].gender) = "male"
    /\ students[1].year < students[2].year
    /\ students[2].year = students[3].year
    /\ Len(visits) = 3
    /\ visits[1].student = 2 /\ visits[2].student = 3 /\ visits[3].student = 1
    /\ \E k \in 1 .. Len(rooms) :
          response.log = <<[student |-> students[2].name, room |-> rooms[k].number,
                            status |-> "success"],
                           [student |-> students[3].name, room |-> None,
                            status |-> "failed"],
                           [student |-> students[1].name, room |-> None,
                            status |-> "failed"]>>

\* C6: in one pass every student whose lowercased gender is "male" is visited
\* before any student whose lowercased gender is "female", whatever the years.
C6_MaleBeforeFemale ==
    PassRan =>
        /\ \A u \in 1 .. Len(visits), v \in 1 .. Len(visits) :
              (/\ GroupOf(students[visits[u].student].gender) = "male"
               /\ GroupOf(students[visits[v].student].gender) = "female") => u < v
        /\ \A i \in 1 .. Len(students) :
              GroupOf(students[i].gender) = "male" =>
                  \E v \in 1 .. Len(visits) : visits[v].student = i

\* C6 witness: a male student of a lower year was visited before a female
\* student of a higher year.
C6_Witness ==
    /\ PassRan
    /\ \E u \in 1 .. Len(visits), v \in 1 .. Len(visits) :
          /\ u < v
          /\ GroupOf(students[visits[u].student].gender) = "male"
          /\ GroupOf(students[visits[v].student].gender) = "female"
          /\ students[visits[u].student].year < students[visits[v].student].year

\* C7: with rooms and students both non-empty the returned log has exactly one
\* entry per student whose lowercased gender is "male" or "female" and none
\* for any other, in visitation order; an entry is "success" with the room
\* number exactly when the student was placed, else "failed" with room None.
C7_LogShape ==
    (lastCall = "allocate_rooms" /\ rooms # <<>> /\ students # <<>>) =>
        /\ response.success
        /\ "log" \in DOMAIN response
        /\ Len(response.log) = Len(visits)
        /\ \A i \in 1 .. Len(students) :
              Cardinality({v \in 1 .. Len(visits) : visits[v].student = i})
                  = IF GroupOf(students[i].gender) \in {"male", "female"} THEN 1 ELSE 0
        /\ \A v \in 1 .. Len(visits) :
              LET e == response.log[v]
                  i == visits[v].student
                  placed == \E k \in 1 .. Len(rooms) :
                               /\ Len(After(v)[k].students) = Len(visits[v].before[k].students) + 1
                               /\ After(v)[k].students[Len(After(v)[k].students)] = students[i].sid
              IN  /\ e.student = students[i].name
                  /\ e.status \in {"success", "failed"}
                  /\ e.status = "success" <=> placed
                  /\ e.status = "success" => (e.room # None /\ e.room = students[i].room)
                  /\ e.status = "failed" => e.room = None

\* C7 witness: a log with a success, a failure and a student left out of it.
C7_Witness ==
    /\ PassRan
    /\ \E v \in 1 .. Len(response.log) : response.log[v].status = "success"
    /\ \E v \in 1 .. Len(response.log) : response.log[v].status = "failed"
    /\ \E i \in 1 .. Len(students) : GroupOf(students[i].gender) = "none"
    /\ Len(response.log) = Len(students) - 1

NoRooms == [success |-> FALSE, message |-> "No rooms available!"]
NoStudents == [success |-> FALSE, message |-> "No students available!"]

\* C8: with no rooms, students or not, allocate_rooms returns success false
\* with "No rooms available!" and no log, and leaves rooms, students and the
\* data file as they were.
C8_NoRoomsShortCircuit ==
    [][(lastCall' = "allocate_rooms" /\ rooms = <<>>) =>
           /\ response' = NoRooms
           /\ rooms' = rooms
           /\ students' = students
           /\ disk' = disk]_vars

\* C8 witness: the call was made with students and no rooms.
C8_Witness ==
    /\ lastCall = "allocate_rooms"
    /\ response = NoRooms
    /\ rooms = <<>>
    /\ students # <<>>

\* C9: with rooms and no students allocate_rooms returns success false with
\* "No students available!" and no log, and changes no room.
C9_NoStudentsShortCircuit ==
    [][(lastCall' = "allocate_rooms" /\ rooms # <<>> /\ students = <<>>) =>
           /\ response' = NoStudents
           /\ rooms' = rooms]_vars

\* C9 witness: the call was made with rooms and no students.
C9_Witness ==
    /\ lastCall = "allocate_rooms"
    /\ response = NoStudents
    /\ rooms # <<>>
    /\ students = <<>>

\* C10: is_available() is true iff occupied < capacity, and add_student on a
\* room with occupied >= capacity returns False and leaves occupied and the
\* students list as they were, in every room state.
C10_RoomGate ==
    [][lastCall' = "room_add_student" =>
           /\ response'.available <=> (rooms[1].occupied < rooms[1].capacity)
           /\ rooms[1].occupied >= rooms[1].capacity =>
                  /\ response'.added = FALSE
                  /\ rooms'[1].occupied = rooms[1].occupied
                  /\ rooms'[1].students = rooms[1].students]_vars

\* C10 witness: add_student was refused by a room holding more than its
\* capacity and a students list shorter than its count.
C10_Witness ==
    /\ lastCall = "room_add_student"
    /\ response.added = FALSE
    /\ rooms[1].occupied > rooms[1].capacity
    /\ Len(rooms[1].students) < rooms[1].occupied

\* C11: a student whose lowercased gender is neither "male" nor "female" keeps
\* room None, has the id in no room's students list and is in no pass's log.
C11_OthersNeverVisited ==
    \A i \in 1 .. Len(students) :
        GroupOf(students[i].gender) = "none" =>
            /\ students[i].room = None
            /\ \A k \in 1 .. Len(rooms) : Count(rooms[k].students, students[i].sid) = 0
            /\ \A v \in 1 .. Len(visits) : visits[v].student # i

\* C12: with rooms and students both non-empty the pass returns success true
\* and, behind every student turned away, goes on to visit every male/female
\* student not visited before; the log has an entry for each visit.
C12_FailureDoesNotAbort ==
    (lastCall = "allocate_rooms" /\ rooms # <<>> /\ students # <<>>) =>
        /\ response.success = TRUE
        /\ Len(response.log) = Len(visits)
        /\ \A v \in 1 .. Len(visits) :
              visits[v].room = 0 =>
                  /\ response.log[v].status = "failed"
                  /\ \A i \in 1 .. Len(students) :
                        (/\ GroupOf(students[i].gender) \in {"male", "female"}
                         /\ \A u \in 1 .. v : visits[u].student # i)
                            => \E w \in (v + 1) .. Len(visits) : visits[w].student = i

\* C12 witness: a pass over full rooms: three students, male and female, all
\* turned away, and success true.
C12_Witness ==
    /\ PassRan
    /\ Len(response.log) = 3
    /\ \A v \in 1 .. 3 : response.log[v].status = "failed"
    /\ GroupOf(students[visits[1].student].gender) = "male"
    /\ GroupOf(students[visits[3].student].gender) = "female"

\* C14: when a pass has left every student with room None and nothing is added,
\* the next allocate_rooms call returns the same log and leaves every room and
\* every student as they were.
C14_IdempotentWhenAllFailed ==
    [][(/\ PassRan
        /\ \A i \in 1 .. Len(students) : students[i].room = None
        /\ lastCall' = "allocate_rooms")
           => /\ response' = response
              /\ rooms' = rooms
              /\ students' = students]_vars

\* C14 witness: a pass turned away every student it visited, two or more, and
\* left all students without a room; the call after it starts here.
C14_Witness ==
    /\ PassRan
    /\ Len(visits) >= 2
    /\ \A v \in 1 .. Len(visits) : visits[v].room = 0 /\ visits[v].was = None
    /\ \A i \in 1 .. Len(students) : students[i].room = None
    /\ response.log = [v \in 1 .. Len(visits) |->
                          [student |-> students[visits[v].student].name,
                           room |-> None, status |-> "failed"]]

\* C15: with allocate requests served at once on the shared instance the passes
\* do not interleave, so that no state has a room with occupied > capacity or
\* occupied # len(students).
C15_ConcurrentPassesAtomic ==
    \A k \in 1 .. Len(rooms) :
        /\ rooms[k].occupied <= rooms[k].capacity
        /\ rooms[k].occupied = Len(rooms[k].students)

\* C16: after each add_room, add_student and allocate_rooms call, early
\* returns included, the rooms and students of the data file equal the rooms
\* and students in memory, attribute for attribute and in the same order (a
\* data file not written yet holds neither rooms nor students).
C16_PersistedEqualsMemory ==
    lastCall \in {"add_room", "add_student", "allocate_rooms"} =>
        IF disk.exists
        THEN /\ Len(disk.rooms) = Len(rooms)
             /\ \A k \in 1 .. Len(rooms) :
                   /\ disk.rooms[k].number = rooms[k].number
                   /\ disk.rooms[k].capacity = rooms[k].capacity
                   /\ disk.rooms[k].floor = rooms[k].floor
                   /\ disk.rooms[k].type = rooms[k].type
                   /\ disk.rooms[k].occupied = rooms[k].occupied
                   /\ disk.rooms[k].students = rooms[k].students
             /\ Len(disk.students) = Len(students)
             /\ \A i \in 1 .. Len(students) :
                   /\ disk.students[i].sid = students[i].sid
                   /\ disk.students[i].name = students[i].name
                   /\ disk.students[i].gender = students[i].gender
                   /\ disk.students[i].year = students[i].year
                   /\ disk.students[i].room = students[i].room
        ELSE rooms = <<>> /\ students = <<>>

\* C16 witness: a pass placed a student and the file holds the student's room.
C16_Witness ==
    /\ PassRan
    /\ disk.exists
    /\ \E i \in 1 .. Len(students) :
          /\ students[i].room # None
          /\ disk.students[i].room = students[i].room
    /\ \E k \in 1 .. Len(rooms) :
          /\ rooms[k].occupied > 0
          /\ disk.rooms[k].students = rooms[k].students

\* C17: get_stats reports the sum of the capacities, the sum of the occupied
\* counts, the number of students whose room is not None, and
\* unallocated_students = total_students - allocated_students.
C17_StatsAggregate ==
    lastCall = "get_stats" =>
        /\ response.total_rooms = Len(rooms)
        /\ response.total_students = Len(students)
        /\ \/ rooms = <<>> /\ response.total_capacity = 0 /\ response.occupied_beds = 0
           \/ /\ Len(rooms) = 1
              /\ response.total_capacity = rooms[1].capacity
              /\ response.occupied_beds = rooms[1].occupied
           \/ /\ Len(rooms) = 2
              /\ response.total_capacity = rooms[1].capacity + rooms[2].capacity
              /\ response.occupied_beds = rooms[1].occupied + rooms[2].occupied
           \/ Len(rooms) > 2
        /\ response.allocated_students
              = Cardinality({i \in 1 .. Len(students) : students[i].room # None})
        /\ response.unallocated_students
              = response.total_students - response.allocated_students

\* The inputs that denote an integer: the numbers, and the decimal strings.
Coercible(x) == x.kind = "int" \/ x.text \in {"2", " 1 ", "-1"}

Untouched == rooms' = rooms /\ students' = students /\ disk' = disk

Refused == response'.success = FALSE /\ "message" \in DOMAIN response'

\* C18: a create-room request whose capacity or floor is no integer, and a
\* create-student request whose year is none, is answered with success false
\* and a message, and leaves rooms, students and the data file as they were:
\* every create step either is such a refusal, or is the step of no request
\* with a non-integer field.
C18_ValidationFailureNoChange ==
    [][/\ lastCall' = "add_room" =>
             \/ Refused /\ Untouched
             \/ \A n \in RoomNumbers, c \in CapacityInputs, f \in FloorInputs, ty \in RoomTypes :
                    ~(Coercible(c) /\ Coercible(f)) => ~AddRoom(n, c, f, ty)
       /\ lastCall' = "add_student" =>
             \/ Refused /\ Untouched
             \/ \A i \in StudentIds, n \in StudentNames, g \in Genders, y \in YearInputs :
                    ~Coercible(y) => ~AddStudent(i, n, g, y)]_vars

\* C18 witness: a create request was refused on a system holding a room, a
\* student placed in it and a data file.
C18_Witness ==
    /\ lastCall \in {"add_room", "add_student"}
    /\ response.success = FALSE
    /\ disk.exists
    /\ \E i \in 1 .. Len(students) : students[i].room # None
    /\ Len(rooms) < MaxRooms
    /\ Len(students) < MaxStudents

\* C19: after any sequence of create-room and create-student requests no two
\* rooms have the same number and no two students the same id.
C19_UniqueKeys ==
    /\ \A j, k \in 1 .. Len(rooms) : rooms[j].number = rooms[k].number => j = k
    /\ \A i, j \in 1 .. Len(students) : students[i].sid = students[j].sid => i = j

\* C20: every room has a capacity of at least 1.
C20_CapacityPositive == \A k \in 1 .. Len(rooms) : rooms[k].capacity >= 1

\* No step changes the capacity of a room that exists.
CapacityImmutable ==
    [][\A k \in 1 .. Len(rooms) :
          k <= Len(rooms') /\ rooms'[k].capacity = rooms[k].capacity]_vars

\* Every student was without a room when the last pass began.
FreshPass ==
    /\ \A v \in 1 .. Len(visits) : visits[v].was = None
    /\ \A i \in 1 .. Len(students) :
          (\A v \in 1 .. Len(visits) : visits[v].student # i) => students[i].room = None

\* C21: in a pass begun with no student holding a room, no visited student is
\* given a bed while a visited student of a strictly higher year is logged as
\* failed.
C21_SeniorsFirst ==
    (PassRan /\ FreshPass) =>
        \A v, w \in 1 .. Len(visits) :
            (response.log[v].status = "success" /\ response.log[w].status = "failed")
                => students[visits[w].student].year <= students[visits[v].student].year

\* C22: a female-group student is placed in the first room with a free bed,
\* whoever holds the other beds; and with one empty room of capacity 2 and
\* students [A female year 1, B male year 1] the log is B then A, both
\* successful, both in that room.
C22_GenderAgnosticRooms ==
    PassRan =>
        /\ \A v \in 1 .. Len(visits) :
              GroupOf(students[visits[v].student].gender) = "female" =>
                  LET rs == visits[v].before
                      free == {k \in 1 .. Len(rs) : rs[k].occupied < rs[k].capacity}
                  IN  IF free = {} THEN visits[v].room = 0
                      ELSE /\ visits[v].room \in free
                           /\ \A k \in free : visits[v].room <= k
        /\ (/\ Len(rooms) = 1
            /\ rooms[1].capacity = 2
            /\ Len(students) = 2
            /\ GroupOf(students[1].gender) = "female"
            /\ GroupOf(students[2].gender) = "male"
            /\ students[1].year = students[2].year
            /\ FreshPass
            /\ visits # <<>>
            /\ visits[1].before[1].students = <<>>)
               => /\ response.log = << [student |-> students[2].name,
                                        room |-> rooms[1].number, status |-> "success"],
                                       [student |-> students[1].name,
                                        room |-> rooms[1].number, status |-> "success"] >>
                  /\ rooms[1].students = <<students[2].sid, students[1].sid>>
                  /\ students[1].room = rooms[1].number
                  /\ students[2].room = rooms[1].number

\* C22 witness: the pass of the scenario: one room of capacity 2, empty before,
\* now holding the male student and behind him the female student.
C22_Witness ==
    /\ PassRan
    /\ FreshPass
    /\ Len(rooms) = 1
    /\ rooms[1].capacity = 2
    /\ Len(students) = 2
    /\ GroupOf(students[1].gender) = "female"
    /\ GroupOf(students[2].gender) = "male"
    /\ students[1].year = students[2].year
    /\ rooms[1].students = <<students[2].sid, students[1].sid>>

\* The ids in the students lists of the rooms rs, one list after another.
RECURSIVE Beds(_)
Beds(rs) == IF rs = <<>> THEN <<>> ELSE rs[1].students \o Beds(Tail(rs))

\* C23: when no two students have the same id, the id of each student occurs
\* at most once in the students lists of all rooms taken together.
C23_OneBedPerStudent ==
    (\A i, j \in 1 .. Len(students) : students[i].sid = students[j].sid => i = j)
        => \A i \in 1 .. Len(students) : Count(Beds(rooms), students[i].sid) <= 1

\* C24: once a student's room is set, no later call changes it.
C24_AssignmentsStable ==
    [][\A i \in 1 .. Len(students) :
          students[i].room # None => students'[i].room = students[i].room]_vars

\* C25: when a pass returns success true and its log has a failed entry,
\* every room has occupied >= capacity afterwards.
C25_NoFreeBedWhenRefused ==
    (PassRan /\ \E v \in 1 .. Len(response.log) : response.log[v].status = "failed")
        => \A k \in 1 .. Len(rooms) : rooms[k].occupied >= rooms[k].capacity

\* C25 witness: a pass over two rooms placed one student in the second room
\* and turned another away.
C25_Witness ==
    /\ PassRan
    /\ Len(rooms) = 2
    /\ \E v \in 1 .. Len(visits) : visits[v].room = 2
    /\ \E v \in 1 .. Len(response.log) : response.log[v].status = "failed"

\* C26: in the log of one pass every entry behind a failed entry is failed,
\* in whichever gender group it was written.
C26_SuccessesBeforeFailures ==
    PassRan =>
        \A v, w \in 1 .. Len(response.log) :
            (v < w /\ response.log[v].status = "failed")
                => response.log[w].status = "failed"

\* C26 witness: a log of a success in the male group and behind it a failure
\* in the female group.
C26_Witness ==
    /\ PassRan
    /\ Len(response.log) = 2
    /\ response.log[1].status = "success"
    /\ response.log[2].status = "failed"
    /\ GroupOf(students[visits[1].student].gender) = "male"
    /\ GroupOf(students[visits[2].student].gender) = "female"

\* C27: get_stats reports as many occupied beds as allocated students.
C27_StatsConsistent ==
    lastCall = "get_stats" => response.occupied_beds = response.allocated_students

====
